---- MODULE Spec2Model ----
(***************************************************************************)
(* json-schema-to-typescript: the rule-based schema normalizer             *)
(* (src/normalizer.ts) and the compile pipeline around it (src/index.ts).  *)
(*                                                                         *)
(* A schema tree lives in a heap of nodes: an object reference of the      *)
(* program is an address (an index of the heap), so that a rule mutating   *)
(* a node in place, cloneDeep's fresh copy and Array.fill's aliasing are   *)
(* what they are in the program.                                           *)
(***************************************************************************)
EXTENDS Integers, Sequences, FiniteSets, TLC

VARIABLES
    rules,      \* the module-level rule registry (a Map, in insertion order)
    heap,       \* the objects: heap[a] is the schema node at address a
    schema,     \* the caller's schema: the root address handed to normalize
    origin,     \* how the caller got `schema`: "raw" or the call that returned it
    pc,         \* position in normalize: 0 idle, k the k-th rule is next
    outcome,    \* "none" | "running" | "returned" | "threw"
    work,       \* _schema: the root of the deep copy (0: none)
    call,       \* the arguments of the call in progress (filename, options)
    log,        \* every rule invocation of the call, in order
    before,     \* the caller's tree as it was when normalize was entered
    stage,      \* position in compile
    trace,      \* the stage events of the compile call, in order
    locals,     \* compile's local constants (errors, dereferenced, linked, ...)
    threwBefore \* an earlier call has ended by a rule throwing

vars == <<rules, heap, schema, origin, pc, outcome, work, call, log, before,
          stage, trace, locals, threwBefore>>

\* ------------------------------------------------------------------ bounds

\* largest minItems / maxItems of an input schema
MaxItemsN == 2
\* longest array-valued items of an input schema
MaxTupleLen == 2

\* ------------------------------------------------------------------ values

Range(s) == {s[i] : i \in 1..Len(s)}

RECURSIVE FilterOut(_, _)
\* Array.prototype.filter(x => x !== v)
FilterOut(s, v) ==
    IF s = <<>> THEN <<>>
    ELSE IF Head(s) = v THEN FilterOut(Tail(s), v)
    ELSE <<Head(s)>> \o FilterOut(Tail(s), v)

RECURSIVE Repeat(_, _)
\* Array(n).fill(x), n >= 0
Repeat(x, n) == IF n <= 0 THEN <<>> ELSE <<x>> \o Repeat(x, n - 1)

\* A JSON literal is written as its text: null, false, 0, 1, '' and 'red';
\* "undefined" is the absent key.
Undefined == "undefined"
\* JavaScript truthiness of a literal
Truthy(v) == v \notin {Undefined, "null", "false", "0", "''"}

NoRefs == [has |-> FALSE, refs |-> <<>>]
Refs(s) == [has |-> TRUE, refs |-> s]
NoSlot == [kind |-> "absent", refs |-> <<>>]
NoNum == [kind |-> "absent", n |-> 0]
Num(n) == [kind |-> "number", n |-> n]
\* a value that is not a number (and is truthy), such as the string "2"
NotANumber == [kind |-> "other", n |-> 0]

\* The schema node with no key at all.
EmptySchema ==
    [type |-> [arr |-> FALSE, names |-> <<>>],
     enum |-> [has |-> FALSE, vals |-> <<>>],
     const |-> Undefined,
     required |-> [kind |-> "absent", names |-> <<>>],
     properties |-> NoRefs,
     additionalProperties |-> NoSlot,
     patternProperties |-> FALSE,
     id |-> Undefined,
     description |-> Undefined,
     minItems |-> NoNum,
     maxItems |-> NoNum,
     items |-> NoSlot,
     additionalItems |-> NoSlot,
     defs |-> NoRefs,
     definitions |-> NoRefs,
     anyOf |-> NoRefs,
     tagged |-> FALSE]

ScalarType(t) == [arr |-> FALSE, names |-> <<t>>]
ArrayType(ts) == [arr |-> TRUE, names |-> ts]

\* ------------------------------------------------------------- predicates

hasType(n, t) ==
    IF n.type.arr THEN t \in Range(n.type.names) ELSE n.type.names = <<t>>

isObjectType(n) ==
    n.properties.has \/ hasType(n, "object") \/ hasType(n, "any")

isArrayType(n) ==
    n.items.kind # "absent" \/ hasType(n, "array") \/ hasType(n, "any")

\* ---------------------------------------------------------- utils helpers

\* toSafeString(justName(fileName)): the file's base name without directory
\* and extension, as an identifier with a capital first letter.
toSafeStringOfJustName(fileName) ==
    CASE fileName = "foo.json" -> "Foo"
      [] fileName = "dir/my schema.json" -> "MySchema"
      [] OTHER -> "NoName"

\* escapeBlockComment: a closing-comment token inside the descriptive text is
\* broken up so that it cannot end the generated block comment.
escapeBlockComment(n) ==
    CASE n.description = "a*/b" -> [n EXCEPT !.description = "a* /b"]
      [] n.description = "*/" -> [n EXCEPT !.description = "* /"]
      [] OTHER -> n

\* ------------------------------------------------------- the built-in rules
\* Each rule maps the node it is called on to the node it leaves behind.

\* 'Remove `type=["null"]` if `enum=[null]`'
RemoveNullType(n) ==
    IF /\ n.enum.has
       /\ "null" \in Range(n.enum.vals)
       /\ n.type.arr
       /\ "null" \in Range(n.type.names)
    THEN [n EXCEPT !.type.names = FilterOut(n.type.names, "null")]
    ELSE n

\* A rule that never destructures.
DestructureUnaryTypesSkipped(n) == n

\* 'Destructure unary types'
DestructureUnaryTypes(n) ==
    IF n.type.arr /\ Len(n.type.names) = 1
    THEN [n EXCEPT !.type = ScalarType(n.type.names[1])]
    ELSE n

\* 'Add empty `required` property if none is defined'
AddEmptyRequired(n) ==
    IF isObjectType(n) /\ n.required.kind = "absent"
    THEN [n EXCEPT !.required = [kind |-> "array", names |-> <<>>]]
    ELSE n

\* 'Transform `required`=false to `required`=[]'
TransformRequiredFalse(n) ==
    IF n.required.kind = "false"
    THEN [n EXCEPT !.required = [kind |-> "array", names |-> <<>>]]
    ELSE n

\* 'Default additionalProperties to true'
DefaultAdditionalProperties(n) ==
    IF /\ isObjectType(n)
       /\ n.additionalProperties.kind = "absent"
       /\ ~n.patternProperties
    THEN [n EXCEPT !.additionalProperties = [kind |-> "true", refs |-> <<>>]]
    ELSE n

\* 'Default top level `id`'
DefaultTopLevelId(n, fileName, isRoot) ==
    IF isRoot /\ ~Truthy(n.id)
    THEN [n EXCEPT !.id = toSafeStringOfJustName(fileName)]
    ELSE n

\* 'Escape closing JSDoc Comment'
EscapeClosingJSDocComment(n) == escapeBlockComment(n)

\* 'Optionally remove maxItems and minItems'
RemoveMaxItemsAndMinItems(n, options) ==
    IF options.ignoreMinAndMaxItems
    THEN [n EXCEPT !.maxItems = NoNum, !.minItems = NoNum]
    ELSE n

\* The rule without its early return on ignoreMinAndMaxItems.
NormaliseMinItemsAlways(n, options) ==
    IF isArrayType(n)
    THEN [n EXCEPT !.minItems =
            IF n.minItems.kind = "number" THEN n.minItems ELSE Num(0)]
    ELSE n

\* 'Normalise schema.minItems'
NormaliseMinItems(n, options) ==
    IF options.ignoreMinAndMaxItems THEN n
    ELSE IF isArrayType(n)
    THEN [n EXCEPT !.minItems =
            IF n.minItems.kind = "number" THEN n.minItems ELSE Num(0)]
    ELSE n

hasMaxItems(n) == n.maxItems.kind = "number" /\ n.maxItems.n >= 0
hasMinItems(n) == n.minItems.kind = "number" /\ n.minItems.n > 0

\* JavaScript's `v || w` on minItems / maxItems values: v when v is truthy.
\* undefined and 0 are falsy; a non-number here is a truthy one.
OrElse(v, w) ==
    IF v.kind = "other" \/ (v.kind = "number" /\ v.n # 0) THEN v ELSE w

\* Array(v): a number is the length of the new array and must be a
\* non-negative integer (or RangeError is thrown); any other value becomes
\* the only element of a one-element array.
ArrayOf(v) ==
    CASE v.kind = "other" -> [threw |-> FALSE, length |-> 1]
      [] v.kind = "number" /\ v.n < 0 -> [threw |-> TRUE, length |-> 0]
      [] OTHER -> [threw |-> FALSE, length |-> v.n]

\* schema.items.slice(0, maxItems)
Slice(s, n) == SubSeq(s, 1, IF n < Len(s) THEN n ELSE Len(s))

\* 'Normalize schema.items': the node left behind, or threw.
NormalizeItems(n, options) ==
    IF options.ignoreMinAndMaxItems THEN [threw |-> FALSE, node |-> n]
    ELSE
      LET newItems == ArrayOf(OrElse(n.maxItems, OrElse(n.minItems, Num(0))))
          expand == /\ n.items.kind = "single"
                    /\ (hasMaxItems(n) \/ hasMinItems(n))
          n1 == IF ~expand THEN n
                ELSE [n EXCEPT
                        !.additionalItems =
                            IF ~hasMaxItems(n)
                            THEN [kind |-> "schema", refs |-> n.items.refs]
                            ELSE n.additionalItems,
                        !.items = [kind |-> "array",
                                   refs |-> Repeat(n.items.refs[1],
                                                   newItems.length)]]
          n2 == IF /\ n1.items.kind = "array"
                   /\ hasMaxItems(n1)
                   /\ n1.maxItems.n < Len(n1.items.refs)
                THEN [n1 EXCEPT !.items.refs = Slice(n1.items.refs, n1.maxItems.n)]
                ELSE n1
      IN IF expand /\ newItems.threw
         THEN [threw |-> TRUE, node |-> n]
         ELSE [threw |-> FALSE, node |-> n2]

\* 'Transform $defs to definitions'
TransformDefs(n) ==
    IF n.defs.has
    THEN [n EXCEPT !.definitions = n.defs, !.defs = NoRefs]
    ELSE n

\* 'Transform const to singleton enum'
TransformConst(n) ==
    IF Truthy(n.const)
    THEN [n EXCEPT !.enum = [has |-> TRUE, vals |-> <<n.const>>],
                   !.const = Undefined]
    ELSE n

\* ------------------------------------------------------------ the registry
\* A Map is the sequence of its entries in insertion order.

RECURSIVE KeyIndex(_, _)
\* position of the entry with this key, 0 when there is none
KeyIndex(m, key) ==
    IF m = <<>> THEN 0
    ELSE IF m[Len(m)].name = key /\ KeyIndex(SubSeq(m, 1, Len(m) - 1), key) = 0
    THEN Len(m)
    ELSE KeyIndex(SubSeq(m, 1, Len(m) - 1), key)

\* Map.prototype.set: a key already present keeps its position and gets the
\* new value; a new key is appended.
MapSet(m, key, impl) ==
    LET i == KeyIndex(m, key)
        e == [name |-> key, impl |-> impl]
    IN IF i = 0 THEN Append(m, e) ELSE [m EXCEPT ![i] = e]

RECURSIVE MapFrom(_)
\* the Map a sequence of set() calls builds
MapFrom(regs) ==
    IF regs = <<>> THEN <<>>
    ELSE LET e == regs[Len(regs)]
         IN MapSet(MapFrom(SubSeq(regs, 1, Len(regs) - 1)), e.name, e.impl)

\* The registrations with the first two in the other order.
BuiltinRegistrationsSwapped ==
    << [name |-> "Destructure unary types", impl |-> "DestructureUnaryTypes"],
       [name |-> "Remove 'type=[\"null\"]' if 'enum=[null]'", impl |-> "RemoveNullType"],
       [name |-> "Add empty 'required' property if none is defined", impl |-> "AddEmptyRequired"],
       [name |-> "Transform 'required'=false to 'required'=[]", impl |-> "TransformRequiredFalse"],
       [name |-> "Default additionalProperties to true", impl |-> "DefaultAdditionalProperties"],
       [name |-> "Default top level 'id'", impl |-> "DefaultTopLevelId"],
       [name |-> "Escape closing JSDoc Comment", impl |-> "EscapeClosingJSDocComment"],
       [name |-> "Optionally remove maxItems and minItems", impl |-> "RemoveMaxItemsAndMinItems"],
       [name |-> "Normalise schema.minItems", impl |-> "NormaliseMinItems"],
       [name |-> "Normalize schema.items", impl |-> "NormalizeItems"],
       [name |-> "Transform $defs to definitions", impl |-> "TransformDefs"],
       [name |-> "Transform const to singleton enum", impl |-> "TransformConst"] >>

\* The rules.set(...) calls of the module, in source order (a backquote of a
\* rule's name is written ').
BuiltinRegistrations ==
    << [name |-> "Remove 'type=[\"null\"]' if 'enum=[null]'", impl |-> "RemoveNullType"],
       [name |-> "Destructure unary types", impl |-> "DestructureUnaryTypes"],
       [name |-> "Add empty 'required' property if none is defined", impl |-> "AddEmptyRequired"],
       [name |-> "Transform 'required'=false to 'required'=[]", impl |-> "TransformRequiredFalse"],
       [name |-> "Default additionalProperties to true", impl |-> "DefaultAdditionalProperties"],
       [name |-> "Default top level 'id'", impl |-> "DefaultTopLevelId"],
       [name |-> "Escape closing JSDoc Comment", impl |-> "EscapeClosingJSDocComment"],
       [name |-> "Optionally remove maxItems and minItems", impl |-> "RemoveMaxItemsAndMinItems"],
       [name |-> "Normalise schema.minItems", impl |-> "NormaliseMinItems"],
       [name |-> "Normalize schema.items", impl |-> "NormalizeItems"],
       [name |-> "Transform $defs to definitions", impl |-> "TransformDefs"],
       [name |-> "Transform const to singleton enum", impl |-> "TransformConst"] >>

\* Rule bodies a caller may supply: one that sets a key of its own on the
\* node, one that throws.
CallerTag(n) == [n EXCEPT !.tagged = TRUE]

\* rule(schema, _schema, filename, options, isRoot): the node left behind, or
\* threw.
CallRule(rule, n, fileName, options, isRoot) ==
    LET ok(m) == [threw |-> FALSE, node |-> m]
    IN CASE rule.impl = "RemoveNullType" -> ok(RemoveNullType(n))
         [] rule.impl = "DestructureUnaryTypes" -> ok(DestructureUnaryTypes(n))
         [] rule.impl = "AddEmptyRequired" -> ok(AddEmptyRequired(n))
         [] rule.impl = "TransformRequiredFalse" -> ok(TransformRequiredFalse(n))
         [] rule.impl = "DefaultAdditionalProperties" -> ok(DefaultAdditionalProperties(n))
         [] rule.impl = "DefaultTopLevelId" -> ok(DefaultTopLevelId(n, fileName, isRoot))
         [] rule.impl = "EscapeClosingJSDocComment" -> ok(EscapeClosingJSDocComment(n))
         [] rule.impl = "RemoveMaxItemsAndMinItems" -> ok(RemoveMaxItemsAndMinItems(n, options))
         [] rule.impl = "NormaliseMinItems" -> ok(NormaliseMinItems(n, options))
         [] rule.impl = "NormalizeItems" -> NormalizeItems(n, options)
         [] rule.impl = "TransformDefs" -> ok(TransformDefs(n))
         [] rule.impl = "TransformConst" -> ok(TransformConst(n))
         [] rule.impl = "CallerTag" -> ok(CallerTag(n))
         [] rule.impl = "CallerThrow" -> [threw |-> TRUE, node |-> n]

\* ------------------------------------------------------------ the traversal

\* The child schemas of a node, in the order they are visited.
Children(n) ==
    n.properties.refs \o n.items.refs \o n.additionalItems.refs
      \o n.additionalProperties.refs \o n.definitions.refs \o n.defs.refs
      \o n.anyOf.refs

RECURSIVE TraverseLoop(_, _, _, _, _, _, _)
\* traverse(schema, callback, isRoot): the callback on the node, then on its
\* children; a node already processed is not visited again. `todo` holds the
\* nodes still to visit, `visited` those the callback was called on.
TraverseLoop(h, todo, processed, visited, rule, fileName, options) ==
    IF todo = <<>> THEN [heap |-> h, visited |-> visited, threw |-> FALSE]
    ELSE LET a == Head(todo) IN
      IF a \in processed
      THEN TraverseLoop(h, Tail(todo), processed, visited, rule, fileName, options)
      ELSE LET r == CallRule(rule, h[a], fileName, options, visited = <<>>) IN
        IF r.threw
        THEN [heap |-> h, visited |-> Append(visited, a), threw |-> TRUE]
        ELSE TraverseLoop([h EXCEPT ![a] = r.node],
                          Children(r.node) \o Tail(todo),
                          processed \union {a}, Append(visited, a),
                          rule, fileName, options)

traverse(h, root, rule, fileName, options) ==
    TraverseLoop(h, <<root>>, {}, <<>>, rule, fileName, options)

RECURSIVE PreOrder(_, _, _)
\* the nodes reachable from `todo`, each once, parents first
PreOrder(h, todo, seen) ==
    IF todo = <<>> THEN <<>>
    ELSE IF Head(todo) \in seen THEN PreOrder(h, Tail(todo), seen)
    ELSE <<Head(todo)>> \o PreOrder(h, Children(h[Head(todo)]) \o Tail(todo),
                                    seen \union {Head(todo)})

Reachable(h, root) == Range(PreOrder(h, <<root>>, {}))

IndexOf(s, x) == CHOOSE i \in 1..Len(s) : s[i] = x

\* a node with every reference to a child replaced
MapRefs(n, f(_)) ==
    LET m(s) == [i \in 1..Len(s) |-> f(s[i])]
    IN [n EXCEPT !.properties.refs = m(@),
                 !.items.refs = m(@),
                 !.additionalItems.refs = m(@),
                 !.additionalProperties.refs = m(@),
                 !.definitions.refs = m(@),
                 !.defs.refs = m(@),
                 !.anyOf.refs = m(@)]

\* the tree under root laid out on its own, from address base + 1 on
CopyAt(h, root, base) ==
    LET order == PreOrder(h, <<root>>, {})
    IN [i \in 1..Len(order) |->
          MapRefs(h[order[i]], LAMBDA a : base + IndexOf(order, a))]

\* A copy that is the argument itself.
cloneDeepShared(h, root) == [heap |-> h, root |-> root]

\* lodash's cloneDeep: fresh objects for the whole tree, sharing kept.
cloneDeep(h, root) ==
    [heap |-> h \o CopyAt(h, root, Len(h)), root |-> Len(h) + 1]

\* --------------------------------------------------------------- the inputs

E == EmptySchema
ChildUnary == [E EXCEPT !.type = ArrayType(<<"string">>)]
ChildConst == [E EXCEPT !.const = "'red'", !.description = "*/"]
ChildTuple(a) == [E EXCEPT !.items = [kind |-> "single", refs |-> <<a>>],
                           !.minItems = Num(1)]
\* the children of the input trees, in address order from 2 on
Kids(k) == [i \in 1..k |-> IF i % 2 = 1 THEN ChildUnary ELSE ChildConst]
Addrs(k) == [i \in 1..k |-> i + 1]

Types == {E.type, ScalarType("string"), ArrayType(<<"string">>),
          ArrayType(<<"string", "null">>), ArrayType(<<"null">>),
          ArrayType(<<"string", "number">>)}
Enums == {E.enum, [has |-> TRUE, vals |-> <<"null">>],
          [has |-> TRUE, vals |-> <<"'red'">>],
          [has |-> TRUE, vals |-> <<"'red'", "null">>]}
Literals == {"'red'", "1", "0", "false", "''", "null"}
MinItemsValues == {NoNum, NotANumber} \union {Num(i) : i \in 0..MaxItemsN}
MaxItemsValues == {NoNum, NotANumber, Num(-1)} \union {Num(i) : i \in 0..MaxItemsN}

TypeSchemas ==
    {<<[E EXCEPT !.type = t, !.enum = e]>> : t \in Types, e \in Enums}

ConstSchemas ==
    {<<[E EXCEPT !.const = c, !.enum = e]>> :
        c \in Literals, e \in {E.enum, [has |-> TRUE, vals |-> <<"'blue'">>]}}
    \union
    {<<[E EXCEPT !.const = "'red'", !.type = ArrayType(<<"string", "null">>),
                 !.enum = [has |-> TRUE, vals |-> <<"null">>]]>>}

ObjectShapes ==
    {[properties |-> NoRefs, type |-> ScalarType("object")],
     [properties |-> NoRefs, type |-> ArrayType(<<"object">>)],
     [properties |-> NoRefs, type |-> ScalarType("any")],
     [properties |-> NoRefs, type |-> ScalarType("string")],
     [properties |-> Refs(<<2>>), type |-> E.type]}

ObjectSchemas ==
    {<<[E EXCEPT !.properties = o.properties, !.type = o.type, !.required = r]>>
        \o (IF o.properties.has THEN Kids(1) ELSE <<>>) :
        o \in ObjectShapes,
        r \in {E.required, [kind |-> "false", names |-> <<>>],
               [kind |-> "array", names |-> <<"a">>]}}
    \union
    {<<[E EXCEPT !.type = t, !.additionalProperties = ap,
                 !.patternProperties = pp]>>
        \o (IF ap.refs # <<>> THEN Kids(1) ELSE <<>>) :
        t \in {ScalarType("object"), ScalarType("string")},
        ap \in {NoSlot, [kind |-> "true", refs |-> <<>>],
                [kind |-> "false", refs |-> <<>>],
                [kind |-> "schema", refs |-> <<2>>]},
        pp \in BOOLEAN}

ArraySchemas ==
    \* one item schema for all items
    {<<[E EXCEPT !.items = [kind |-> "single", refs |-> <<2>>],
                 !.minItems = mn, !.maxItems = mx]>> \o Kids(1) :
        mn \in MinItemsValues, mx \in MaxItemsValues}
    \union
    \* one item schema per position
    {<<[E EXCEPT !.items = [kind |-> "array", refs |-> Addrs(k)],
                 !.maxItems = mx]>> \o Kids(k) :
        k \in 1..MaxTupleLen, mx \in MaxItemsValues}
    \union
    \* no items at all
    {<<[E EXCEPT !.type = ScalarType("array"), !.minItems = mn, !.maxItems = mx]>> :
        mn \in {NoNum, NotANumber, Num(1)}, mx \in {NoNum, Num(1)}}

NestedSchemas ==
    { \* a tuple of tuples
      <<[E EXCEPT !.items = [kind |-> "single", refs |-> <<2>>], !.minItems = Num(2)],
        ChildTuple(3), ChildConst>>,
      \* item schemas past maxItems, one of them a tuple to be
      <<[E EXCEPT !.items = [kind |-> "array", refs |-> <<2, 3>>], !.maxItems = Num(1)],
        ChildUnary, ChildTuple(4), ChildConst>>,
      \* $defs, alone and beside definitions
      <<[E EXCEPT !.defs = Refs(<<2, 3>>)], ChildUnary, ChildConst>>,
      <<[E EXCEPT !.defs = Refs(<<2>>), !.definitions = Refs(<<3>>)],
        ChildUnary, ChildConst>>,
      <<[E EXCEPT !.definitions = Refs(<<2>>)], ChildTuple(3), ChildUnary>>,
      \* combinator children, one schema used twice
      <<[E EXCEPT !.anyOf = Refs(<<2, 3, 2>>)], ChildUnary, ChildConst>>,
      <<[E EXCEPT !.items = [kind |-> "array", refs |-> <<2>>],
                  !.additionalItems = [kind |-> "schema", refs |-> <<3>>]],
        ChildUnary, ChildConst>> }

TextSchemas ==
    {<<[E EXCEPT !.id = i, !.description = d]>> :
        i \in {Undefined, "''", "Given"}, d \in {Undefined, "a*/b", "plain"}}

SchemaInputs ==
    TypeSchemas \union ConstSchemas \union ObjectSchemas \union ArraySchemas
      \union NestedSchemas \union TextSchemas

\* The set() calls that build the Map a caller passes as
\* options.normalizerRules: a rule of its own (set twice) and one under the
\* name of a built-in; a throwing rule under the name of a built-in.
TaggingRules ==
    <<[name |-> "My rule", impl |-> "CallerThrow"],
      [name |-> "My rule", impl |-> "CallerTag"],
      [name |-> "Destructure unary types", impl |-> "CallerTag"]>>
ThrowingRules ==
    <<[name |-> "Normalize schema.items", impl |-> "CallerThrow"]>>

\* normalizerRules: <<>> stands for no normalizerRules (or an empty Map)
Args(fileName, ignore, regs) ==
    [fileName |-> fileName,
     options |-> [ignoreMinAndMaxItems |-> ignore,
                  normalizerRules |-> MapFrom(regs)]]

\* The (filename, options) a caller calls normalize or compile with.
CallArgs ==
    { Args("foo.json", FALSE, <<>>),
      Args("foo.json", TRUE, <<>>),
      Args("dir/my schema.json", FALSE, <<>>),
      Args("foo.json", FALSE, TaggingRules),
      Args("foo.json", TRUE, ThrowingRules) }

NoCall == Args("", FALSE, <<>>)
Raw == [raw |-> TRUE, call |-> NoCall]

\* ---------------------------------------------------------------- normalize

NoLocals ==
    [errors |-> 0, dereferenced |-> <<>>, linked |-> <<>>, normalized |-> <<>>,
     parsed |-> <<>>, optimized |-> <<>>, generated |-> <<>>,
     formatted |-> <<>>, error |-> ""]

Init ==
    /\ rules = MapFrom(BuiltinRegistrations)
    /\ heap \in {CopyAt(h, 1, 0) : h \in SchemaInputs}
    /\ schema = 1
    /\ origin = Raw
    /\ pc = 0
    /\ outcome = "none"
    /\ work = 0
    /\ call = NoCall
    /\ log = <<>>
    /\ before = <<>>
    /\ stage = "none"
    /\ trace = <<>>
    /\ locals = NoLocals
    /\ threwBefore = FALSE

\* Caller-supplied rules take the place of the built-in of the same name.
RuleSequenceMerged(reg, options) ==
    MapFrom(reg \o options.normalizerRules)

\* Caller-supplied rules first.
RuleSequenceCallerFirst(reg, options) ==
    options.normalizerRules \o reg

\* rules.forEach(apply); options.normalizerRules?.forEach(apply): the rules
\* of one call, in the order they are applied.
RuleSequence(reg, options) ==
    reg \o options.normalizerRules

\* const _schema = cloneDeep(schema): normalize is entered.
Enter(args) ==
    LET c == cloneDeep(heap, schema) IN
    /\ heap' = c.heap
    /\ work' = c.root
    /\ call' = args
    /\ pc' = 1
    /\ outcome' = "running"
    /\ log' = <<>>
    /\ before' = heap
    /\ UNCHANGED <<rules, schema, origin, threwBefore>>

\* normalize(schema, filename, options), called by the user of the module
Normalize ==
    /\ outcome = "none"
    /\ stage = "none"
    /\ \E args \in CallArgs : Enter(args)
    /\ UNCHANGED <<stage, trace, locals>>

\* apply(rule, key) for the next rule of the call: one traversal of the copy.
\* A rule that throws ends normalize, and the compile that called it.
ApplyStep(registry) ==
    /\ outcome = "running"
    /\ pc <= Len(RuleSequence(rules, call.options))
    /\ LET rule == RuleSequence(rules, call.options)[pc]
           t == traverse(heap, work, rule, call.fileName, call.options)
       IN /\ heap' = t.heap
          /\ log' = log \o [i \in 1..Len(t.visited) |->
                              [name |-> rule.name, impl |-> rule.impl,
                               node |-> t.visited[i], root |-> work,
                               isRoot |-> (i = 1)]]
          /\ outcome' = IF t.threw THEN "threw" ELSE "running"
          /\ pc' = IF t.threw THEN pc ELSE pc + 1
          /\ stage' = IF t.threw /\ stage = "normalize" THEN "failed" ELSE stage
          /\ locals' = IF t.threw /\ stage = "normalize"
                       THEN [locals EXCEPT !.error = "Error"] ELSE locals
    /\ rules' = registry
    /\ UNCHANGED <<schema, origin, work, call, before, trace, threwBefore>>

\* A caller's rule is also set in the module's registry when it is applied.
ApplyRuleRegistering ==
    ApplyStep(IF pc > Len(rules)
              THEN MapSet(rules, RuleSequence(rules, call.options)[pc].name,
                          RuleSequence(rules, call.options)[pc].impl)
              ELSE rules)

ApplyRule == ApplyStep(rules)

\* return _schema; in compile, const normalized = normalize(linked, ...)
Return ==
    /\ outcome = "running"
    /\ pc > Len(RuleSequence(rules, call.options))
    /\ outcome' = "returned"
    /\ IF stage = "normalize"
       THEN /\ stage' = "parse"
            /\ trace' = Append(trace, "normalize:end")
            /\ locals' = [locals EXCEPT !.normalized = Append(locals.linked, "normalize")]
       ELSE UNCHANGED <<stage, trace, locals>>
    /\ UNCHANGED <<rules, heap, schema, origin, pc, work, call, log, before,
                   threwBefore>>

Idle ==
    /\ pc' = 0
    /\ outcome' = "none"
    /\ work' = 0
    /\ call' = NoCall
    /\ log' = <<>>
    /\ before' = <<>>
    /\ stage' = "none"
    /\ trace' = <<>>
    /\ locals' = NoLocals

\* The caller keeps the normalized schema that normalize returned (and lets
\* go of the raw schema it passed in), to normalize it once more.
KeepResult ==
    /\ outcome = "returned"
    /\ stage = "none"
    /\ origin.raw
    /\ heap' = CopyAt(heap, work, 0)
    /\ schema' = 1
    /\ origin' = [raw |-> FALSE, call |-> call]
    /\ Idle
    /\ UNCHANGED <<rules, threwBefore>>

\* The call is over (returned, threw, resolved or rejected) and the caller
\* is left with the schema it passed in; what the call allocated is garbage.
Forget ==
    /\ \/ stage = "none" /\ outcome \in {"returned", "threw"}
       \/ stage \in {"done", "failed"}
    /\ heap' = CopyAt(heap, schema, 0)
    /\ schema' = 1
    /\ Idle
    /\ threwBefore' = (threwBefore \/ outcome = "threw")
    /\ UNCHANGED <<rules, origin>>

\* ------------------------------------------------------------------ compile

\* merge({}, DEFAULT_OPTIONS, options): the caller's options over the
\* defaults (ignoreMinAndMaxItems: false, no normalizerRules).
mergeOptions(args) == args

\* Validation errors that do not stop compile.
AfterValidateLenient(errors) == "dereference"

\* if (errors.length) { ...; throw new ValidationError() }
AfterValidate(errors) == IF errors > 0 THEN "failed" ELSE "dereference"

\* compile(schema, name, options) up to its await: validate, then the call
\* of dereference. How many errors the validator finds is its business.
Compile ==
    /\ outcome = "none"
    /\ stage = "none"
    /\ \E args \in CallArgs, errors \in 0..1 :
         /\ call' = mergeOptions(args)
         /\ stage' = AfterValidate(errors)
         /\ trace' = IF AfterValidate(errors) = "failed"
                     THEN <<"validate">>
                     ELSE <<"validate", "dereference:start">>
         /\ locals' = [NoLocals EXCEPT
                         !.errors = errors,
                         !.error = IF AfterValidate(errors) = "failed"
                                   THEN "ValidationError" ELSE ""]
    /\ UNCHANGED <<rules, heap, schema, origin, pc, outcome, work, log, before,
                   threwBefore>>

\* const dereferenced = await dereference(schema, _options): the promise is
\* fulfilled and compile goes on
DereferenceResolves ==
    /\ stage = "dereference"
    /\ stage' = "link"
    /\ trace' = Append(trace, "dereference:end")
    /\ locals' = [locals EXCEPT !.dereferenced = <<"schema", "dereference">>]
    /\ UNCHANGED <<rules, heap, schema, origin, pc, outcome, work, call, log,
                   before, threwBefore>>

\* ... or it is rejected, and so is compile's
DereferenceRejects ==
    /\ stage = "dereference"
    /\ stage' = "failed"
    /\ trace' = Append(trace, "dereference:end")
    /\ locals' = [locals EXCEPT !.error = "ResolverError"]
    /\ UNCHANGED <<rules, heap, schema, origin, pc, outcome, work, call, log,
                   before, threwBefore>>

\* const linked = link(dereferenced)
Link ==
    /\ stage = "link"
    /\ stage' = "normalize:call"
    /\ trace' = Append(trace, "link")
    /\ locals' = [locals EXCEPT !.linked = Append(locals.dereferenced, "link")]
    /\ UNCHANGED <<rules, heap, schema, origin, pc, outcome, work, call, log,
                   before, threwBefore>>

\* normalize(linked, name, _options) is called
CompileNormalize ==
    /\ stage = "normalize:call"
    /\ Enter(call)
    /\ stage' = "normalize"
    /\ trace' = Append(trace, "normalize:start")
    /\ UNCHANGED locals

\* A synchronous stage of compile after normalize: it takes the local
\* `from` and sets the local `to`.
Stage(name, from, to, next) ==
    /\ stage = name
    /\ stage' = next
    /\ trace' = Append(trace, name)
    /\ locals' = [locals EXCEPT ![to] = Append(locals[from], name)]
    /\ UNCHANGED <<rules, heap, schema, origin, pc, outcome, work, call, log,
                   before, threwBefore>>

\* const parsed = parse(normalized, _options)
Parse == Stage("parse", "normalized", "parsed", "optimize")

\* parse throws: compile's promise is rejected
ParseThrows ==
    /\ stage = "parse"
    /\ stage' = "failed"
    /\ trace' = Append(trace, "parse")
    /\ locals' = [locals EXCEPT !.error = "Error"]
    /\ UNCHANGED <<rules, heap, schema, origin, pc, outcome, work, call, log,
                   before, threwBefore>>

\* const optimized = optimize(parsed)
Optimize == Stage("optimize", "parsed", "optimized", "generate")

\* const generated = generate(optimized, _options)
Generate == Stage("generate", "optimized", "generated", "format")

\* const formatted = format(generated, _options); return formatted
Format == Stage("format", "generated", "formatted", "done")

Next ==
    \/ Normalize
    \/ ApplyRule
    \/ Return
    \/ KeepResult
    \/ Forget
    \/ Compile
    \/ DereferenceResolves
    \/ DereferenceRejects
    \/ Link
    \/ CompileNormalize
    \/ Parse
    \/ ParseThrows
    \/ Optimize
    \/ Generate
    \/ Format

Spec == Init /\ [][Next]_vars

\* ------------------------------------------------------------- properties

RECURSIVE Deep(_, _)
\* the tree under a node as a value: what a structural comparison sees
Deep(h, a) == MapRefs(h[a], LAMBDA c : Deep(h, c))

\* the nodes of the caller's tree as normalize found it, parents first
InputNodes == PreOrder(before, <<schema>>, {})
\* the copy cloneDeep made of an input node, and the input node of a copy
CopyOf(a) == Len(before) + IndexOf(InputNodes, a)
Original(c) == before[InputNodes[c - Len(before)]]
\* the nodes of the normalized tree
ResultNodes == Reachable(heap, work)

BuiltinsOnly == call.options.normalizerRules = <<>>
CallerImpls == {"CallerTag", "CallerThrow"}

\* The names of the built-in rules, in the order the specification lists
\* them.
ExpectedBuiltinNames ==
    << "Remove 'type=[\"null\"]' if 'enum=[null]'",
       "Destructure unary types",
       "Add empty 'required' property if none is defined",
       "Transform 'required'=false to 'required'=[]",
       "Default additionalProperties to true",
       "Default top level 'id'",
       "Escape closing JSDoc Comment",
       "Optionally remove maxItems and minItems",
       "Normalise schema.minItems",
       "Normalize schema.items",
       "Transform $defs to definitions",
       "Transform const to singleton enum" >>

\* C1: normalize is idempotent. When the schema passed in is what an earlier
\* normalize call returned for the same file name and options (no
\* caller-supplied rules), the schema returned is structurally identical to
\* the schema passed in.
C1_Idempotent ==
    (/\ outcome = "returned"
     /\ ~origin.raw
     /\ origin.call = call
     /\ BuiltinsOnly)
    => Deep(heap, work) = Deep(heap, schema)

\* C1 witness: a normalized tuple schema (items materialized with an
\* open-ended tail, minItems and root id defaulted) has been normalized again.
C1_Witness ==
    /\ outcome = "returned"
    /\ ~origin.raw
    /\ origin.call = call
    /\ BuiltinsOnly
    /\ heap[schema].items.kind = "array"
    /\ Len(heap[schema].items.refs) = 2
    /\ heap[schema].additionalItems.kind = "schema"
    /\ heap[schema].id = "Foo"
    /\ Deep(heap, work) = Deep(heap, schema)

\* C2: normalize never mutates the caller's schema. From the entry of
\* normalize on, every object that existed at entry is as it was, and every
\* rule invocation got a node of the copy as its node and the root of the
\* copy as its root.
C2_InputUntouched ==
    outcome # "none" =>
      /\ SubSeq(heap, 1, Len(before)) = before
      /\ work > Len(before)
      /\ \A i \in 1..Len(log) :
           /\ log[i].node > Len(before)
           /\ log[i].root = work

\* C2 witness: normalize has returned a tree that differs from the one passed
\* in, after built-in and caller-supplied rules ran.
C2_Witness ==
    /\ outcome = "returned"
    /\ ~BuiltinsOnly
    /\ Deep(heap, work) # Deep(heap, schema)
    /\ heap[work].tagged
    /\ SubSeq(heap, 1, Len(before)) = before

\* Which rule an invocation was of: its name, and whether the function
\* invoked was a caller's.
KeyOf(e) == [name |-> e.name, caller |-> e.impl \in CallerImpls]

RECURSIVE Runs(_)
\* the invocations of the call with each unbroken run of invocations of one
\* rule taken as one
Runs(l) ==
    IF l = <<>> THEN <<>>
    ELSE IF Len(l) > 1 /\ KeyOf(l[1]) = KeyOf(l[2]) THEN Runs(Tail(l))
    ELSE <<KeyOf(l[1])>> \o Runs(Tail(l))

RECURSIVE LastRun(_)
\* the nodes of the last unbroken run of invocations of one rule
LastRun(l) ==
    IF l = <<>> THEN <<>>
    ELSE LET r == LastRun(Tail(l))
         IN IF Len(l) = 1 \/ (KeyOf(l[1]) = KeyOf(l[2]) /\ Len(r) = Len(l) - 1)
            THEN <<l[1].node>> \o r
            ELSE r

\* the rules a call is to apply: the built-ins as listed, then the caller's
ExpectedRuns ==
    [i \in 1..Len(ExpectedBuiltinNames) |->
        [name |-> ExpectedBuiltinNames[i], caller |-> FALSE]]
    \o [i \in 1..Len(call.options.normalizerRules) |->
        [name |-> call.options.normalizerRules[i].name, caller |-> TRUE]]

\* C3: rules are applied rule by rule. The invocations of a call fall into
\* one unbroken run per rule; the runs are the built-in rules in their listed
\* order followed by the caller-supplied rules in the order of the caller's
\* Map; and when a rule's run is over (the next rule has not begun), it has
\* been invoked on every node of the tree, once each, parents first.
C3_RuleByRule ==
    outcome # "none" =>
      LET runs == Runs(log) IN
      /\ Len(runs) = (IF outcome = "threw" THEN pc ELSE pc - 1)
      /\ runs = SubSeq(ExpectedRuns, 1, Len(runs))
      /\ (outcome = "running" /\ pc > 1)
           => LastRun(log) = PreOrder(heap, <<work>>, {})

\* C3 witness: a call with two caller-supplied rules has returned, all
\* fourteen rules having run over a tree of several nodes.
C3_Witness ==
    /\ outcome = "returned"
    /\ Len(call.options.normalizerRules) = 2
    /\ Len(Runs(log)) = Len(ExpectedBuiltinNames) + 2
    /\ Cardinality(ResultNodes) >= 3

\* the caller-supplied rules whose name is the name of a built-in rule
Colliding ==
    {r \in Range(call.options.normalizerRules) :
        r.name \in Range(ExpectedBuiltinNames)}

\* the invocations of the rule of this name that is (is not) the caller's,
\* on this node
Invocations(name, caller, node) ==
    {i \in 1..Len(log) : /\ log[i].name = name
                         /\ (log[i].impl \in CallerImpls) = caller
                         /\ log[i].node = node}

\* C4 as stated: a caller-supplied rule under the name of a built-in takes
\* the built-in's place. The built-in of that name is not applied, and the
\* caller's rule is applied once per node where the built-in stood.
C4_Replaces ==
    outcome = "returned" =>
      \A r \in Colliding :
        /\ \A a \in ResultNodes :
             /\ Invocations(r.name, FALSE, a) = {}
             /\ Cardinality(Invocations(r.name, TRUE, a)) = 1
        /\ \E k \in 1..Len(Runs(log)) :
             /\ ExpectedBuiltinNames[k] = r.name
             /\ Runs(log)[k] = [name |-> r.name, caller |-> TRUE]

\* C4 amended: options.normalizerRules is a Map of its own. Within it a name
\* set twice is one rule (the later function, at the first position); a rule
\* in it under the name of a built-in does not replace the built-in: the
\* built-in is still applied, once per node, at its position, and the
\* caller's rule is applied once per node after all built-ins.
C4_AppliedInAddition ==
    outcome = "returned" =>
      \A r \in Range(call.options.normalizerRules) :
        /\ \A a \in ResultNodes :
             /\ Cardinality(Invocations(r.name, TRUE, a)) = 1
             /\ \A i \in Invocations(r.name, TRUE, a) :
                  /\ log[i].impl = r.impl
                  /\ \A j \in 1..Len(log) :
                       log[j].impl \notin CallerImpls => j < i
             /\ r \in Colliding
                  => Cardinality(Invocations(r.name, FALSE, a)) = 1
        /\ r \in Colliding =>
             \E k \in 1..Len(ExpectedBuiltinNames) :
               /\ ExpectedBuiltinNames[k] = r.name
               /\ Runs(log)[k] = [name |-> r.name, caller |-> FALSE]

\* C4 witness: a call with a caller's rule named 'Destructure unary types'
\* has returned; a node whose type was a one-element array has been
\* destructured by the built-in and tagged by the caller's rule.
C4_Witness ==
    /\ outcome = "returned"
    /\ Colliding # {}
    /\ \E a \in ResultNodes :
         /\ Original(a).type = ArrayType(<<"string">>)
         /\ heap[a].type = ScalarType("string")
         /\ heap[a].tagged

\* C5: normalization never changes the registry. It holds the twelve
\* built-in rules in their order, whatever calls were made and however they
\* ended; and a call without caller-supplied rules that returns has applied
\* the twelve built-in functions and nothing else.
C5_RegistryUnchanged ==
    /\ Len(rules) = Len(ExpectedBuiltinNames)
    /\ \A i \in 1..Len(rules) :
         /\ rules[i].name = ExpectedBuiltinNames[i]
         /\ rules[i].impl \notin CallerImpls
    /\ (outcome = "returned" /\ BuiltinsOnly) =>
         /\ \A i \in 1..Len(log) : log[i].impl \notin CallerImpls
         /\ [i \in 1..Len(Runs(log)) |-> Runs(log)[i].name] = ExpectedBuiltinNames

\* C5 witness: after a call in which a caller's rule under a built-in's name
\* threw, and on a schema that a call with caller-supplied rules returned, a
\* call without caller-supplied rules has returned.
C5_Witness ==
    /\ threwBefore
    /\ ~origin.raw
    /\ origin.call.options.normalizerRules # <<>>
    /\ outcome = "returned"
    /\ BuiltinsOnly

\* an input node whose items is a single schema and that has a maxItems
\* that is a non-negative number or a minItems that is a positive number
Materializable(o) ==
    /\ o.items.kind = "single"
    /\ (hasMaxItems(o) \/ hasMinItems(o))

\* C6: tuple materialization (ignoreMinAndMaxItems unset). Normalization of a
\* schema with such a node completes, and the node's items is then copies of
\* its single item schema, maxItems of them when a maxItems was given and
\* minItems of them otherwise; additionalItems is that item schema when no
\* maxItems was given and is left alone when one was.
C6_TupleMaterialization ==
    (/\ outcome \in {"returned", "threw"}
     /\ ~call.options.ignoreMinAndMaxItems
     /\ BuiltinsOnly)
    => \A i \in 1..Len(InputNodes) :
         LET o == before[InputNodes[i]]
             c == Len(before) + i
             x == CopyOf(o.items.refs[1])
         IN Materializable(o) =>
              /\ outcome = "returned"
              /\ c \in ResultNodes =>
                   /\ heap[c].items.kind = "array"
                   /\ heap[c].items.refs =
                        Repeat(x, IF hasMaxItems(o) THEN o.maxItems.n
                                  ELSE o.minItems.n)
                   /\ IF hasMaxItems(o)
                      THEN heap[c].additionalItems.kind = o.additionalItems.kind
                      ELSE heap[c].additionalItems = [kind |-> "schema", refs |-> <<x>>]

\* C6 where maxItems is absent or a non-negative number (what the code's
\* hasMaxItems tests): there the statement of C6 holds.
C6_WithUsableMaxItems ==
    (/\ outcome \in {"returned", "threw"}
     /\ ~call.options.ignoreMinAndMaxItems
     /\ BuiltinsOnly)
    => \A i \in 1..Len(InputNodes) :
         LET o == before[InputNodes[i]]
             c == Len(before) + i
             x == CopyOf(o.items.refs[1])
         IN (Materializable(o) /\ (o.maxItems = NoNum \/ hasMaxItems(o))) =>
              /\ outcome = "returned"
              /\ c \in ResultNodes =>
                   /\ heap[c].items.kind = "array"
                   /\ heap[c].items.refs =
                        Repeat(x, IF hasMaxItems(o) THEN o.maxItems.n
                                  ELSE o.minItems.n)
                   /\ IF hasMaxItems(o)
                      THEN heap[c].additionalItems.kind = o.additionalItems.kind
                      ELSE heap[c].additionalItems = [kind |-> "schema", refs |-> <<x>>]

\* C7: const is folded into enum. A node that had a const key, whatever the
\* literal, has enum equal to that one literal and no const key once
\* normalize has returned.
C7_ConstFolded ==
    outcome = "returned" =>
      \A c \in ResultNodes :
        Original(c).const # Undefined =>
          /\ heap[c].enum = [has |-> TRUE, vals |-> <<Original(c).const>>]
          /\ heap[c].const = Undefined

\* C8: after normalization with the built-in rules no node's type is a
\* one-element array. A one-element type array has become its element; where
\* enum contained null and type was an array containing "null", "null" is
\* gone from type (and what is left, if one name, is that name), and enum is
\* as it was unless a const was folded into it.
C8_NoUnaryTypeArray ==
    (outcome = "returned" /\ BuiltinsOnly) =>
      \A c \in ResultNodes :
        LET o == Original(c)
            nullable == /\ o.enum.has
                        /\ "null" \in Range(o.enum.vals)
                        /\ o.type.arr
                        /\ "null" \in Range(o.type.names)
            names == IF nullable THEN FilterOut(o.type.names, "null")
                     ELSE o.type.names
        IN /\ ~(heap[c].type.arr /\ Len(heap[c].type.names) = 1)
           /\ heap[c].type.names = names
           /\ heap[c].type.arr = (o.type.arr /\ Len(names) # 1)
           /\ (nullable /\ ~Truthy(o.const)) => heap[c].enum = o.enum

\* C8 witness: enum [null] (and 'red') with type ["string", "null"] has been
\* normalized to type "string", null still in enum.
C8_Witness ==
    /\ outcome = "returned"
    /\ BuiltinsOnly
    /\ before[schema].type = ArrayType(<<"string", "null">>)
    /\ "null" \in Range(before[schema].enum.vals)
    /\ heap[work].type = ScalarType("string")
    /\ "null" \in Range(heap[work].enum.vals)

\* C9: with ignoreMinAndMaxItems set, no node of the normalized tree has a
\* minItems or a maxItems key, items is what it was (not expanded, not
\* truncated) and so is additionalItems.
C9_IgnoreMinAndMaxItems ==
    (outcome = "returned" /\ call.options.ignoreMinAndMaxItems) =>
      \A c \in ResultNodes :
           /\ heap[c].minItems = NoNum
           /\ heap[c].maxItems = NoNum
           /\ heap[c].items.kind = Original(c).items.kind
           /\ heap[c].items.refs =
                [i \in 1..Len(Original(c).items.refs) |->
                    CopyOf(Original(c).items.refs[i])]
           /\ heap[c].additionalItems.kind = Original(c).additionalItems.kind

\* C9 witness: a schema with a single item schema, minItems 2 and maxItems 1
\* has been normalized with ignoreMinAndMaxItems set.
C9_Witness ==
    /\ outcome = "returned"
    /\ call.options.ignoreMinAndMaxItems
    /\ before[schema].items.kind = "single"
    /\ before[schema].minItems = Num(2)
    /\ before[schema].maxItems = Num(1)
    /\ heap[work].items.kind = "single"

\* The stages of compile, in their order; dereference is awaited and
\* normalize runs rule by rule, so each has a start and an end.
ExpectedTrace ==
    << "validate", "dereference:start", "dereference:end", "link",
       "normalize:start", "normalize:end", "parse", "optimize", "generate",
       "format" >>

IsPrefix(s, t) == Len(s) <= Len(t) /\ s = SubSeq(t, 1, Len(s))

\* what a stage returns when it was handed the result of the stage before
Chain(k) == SubSeq(<<"schema", "dereference", "link", "normalize", "parse",
                     "optimize", "generate", "format">>, 1, k + 1)

\* C10: compile runs its stages in the fixed order, each after the one
\* before has completed and on its result. normalize is entered only with
\* dereference settled and link done; and when the validator reports an
\* error compile fails with ValidationError and no later stage is started.
C10_StageOrder ==
    /\ IsPrefix(trace, ExpectedTrace)
    /\ locals.dereferenced \in {<<>>, Chain(1)}
    /\ locals.linked \in {<<>>, Chain(2)}
    /\ locals.normalized \in {<<>>, Chain(3)}
    /\ locals.parsed \in {<<>>, Chain(4)}
    /\ locals.optimized \in {<<>>, Chain(5)}
    /\ locals.generated \in {<<>>, Chain(6)}
    /\ locals.formatted \in {<<>>, Chain(7)}
    /\ (stage \notin {"none", "failed"} /\ outcome # "none")
         => IsPrefix(SubSeq(ExpectedTrace, 1, 5), trace) /\ locals.linked # <<>>
    /\ stage = "done" => /\ trace = ExpectedTrace
                         /\ locals.formatted = Chain(7)
    /\ locals.errors > 0 => /\ stage = "failed"
                            /\ locals.error = "ValidationError"
                            /\ trace = <<"validate">>
                            /\ outcome = "none"

\* C10 witness: a compile has run all its stages and holds the formatted
\* text.
C10_Witness ==
    /\ stage = "done"
    /\ trace = ExpectedTrace
    /\ locals.formatted = Chain(7)
    /\ outcome = "returned"

====
